---- MODULE Spec2Model ----
(***************************************************************************)
(* Model of merge_dive_data.py: the record transformers                    *)
(* (truncate_time_to_seconds, extend_sealog_messages), the time-keyed      *)
(* merge (merge_data), the timeline generator (generate_time_sequence)     *)
(* and the table writer (write_csv), as driven by main.                    *)
(*                                                                         *)
(* A timestamp string is a sequence of one-character strings, so that      *)
(* slicing ([:19]), datetime.fromisoformat and strftime are conversions    *)
(* between text and calendar fields.  A record (a Python dict) is a        *)
(* function from field names to values.  All timestamps of the model lie   *)
(* inside one calendar month, so adding seconds carries into minutes,      *)
(* hours and days but never into the month.                                *)
(***************************************************************************)
EXTENDS Integers, Sequences, FiniteSets, TLC

VARIABLES
    pc,                  \* control location of the function under way
    parsers,             \* main: the list of record iterators given to merge_data
    merged_data,         \* merge_data: the table, timestamp -> record
    consumed,            \* history: the records merge_data has consumed, in order
    data_iter,           \* the not yet consumed input of a transformer
    taken,               \* history: the input records a transformer has consumed
    out,                 \* history: the records a transformer has yielded
    out_kind,            \* history: per yielded record, "item" or "copy"
    last_item,           \* extend_sealog_messages local
    last_item_time,      \* extend_sealog_messages local
    item,                \* extend_sealog_messages loop variable
    next_item_time,      \* extend_sealog_messages local
    new_item_time,       \* extend_sealog_messages local
    last_full_timestamp, \* truncate_time_to_seconds local
    start,               \* generate_time_sequence argument
    end,                 \* generate_time_sequence argument
    interval_seconds,    \* generate_time_sequence argument
    gen_pc,              \* generator frame: "created", "running", "finished", "raised"
    start_time,          \* generate_time_sequence local
    max_seconds,         \* generate_time_sequence local
    i,                   \* generate_time_sequence loop variable
    timeline,            \* history: the timestamps the generator has yielded
    csv_to,              \* args.csv_to
    csv_file,            \* the output file: NotOpened, or the lines written so far
    warnings,            \* the warnings logged by write_csv
    sorted_keys,         \* write_csv local, the header
    exception            \* the exception that ended the run, or None

vars == <<pc, parsers, merged_data, consumed, data_iter, taken, out, out_kind,
          last_item, last_item_time, item, next_item_time, new_item_time,
          last_full_timestamp, start, end, interval_seconds, gen_pc, start_time,
          max_seconds, i, timeline, csv_to, csv_file, warnings, sorted_keys,
          exception>>

mergeVars == <<parsers, merged_data, consumed>>
transVars == <<data_iter, taken, out, out_kind>>
extVars   == <<last_item, last_item_time, item, next_item_time, new_item_time>>
genVars   == <<start, end, interval_seconds, gen_pc, start_time, max_seconds, i,
               timeline>>
csvVars   == <<csv_to, csv_file, warnings, sorted_keys>>

None == "None"
NotOpened == "NotOpened"
EmptyDict == <<>>
\* last_full_timestamp = None: equal to no string
NoTimestamp == <<"None">>

(***************************************************************************)
(* Bounds of the model.                                                    *)
(***************************************************************************)
MaxRecords == 3    \* records in all iterators given to merge_data together
MaxParsers == 2    \* iterators given to merge_data

(***************************************************************************)
(* Text and calendar.                                                      *)
(***************************************************************************)
Digits == <<"0", "1", "2", "3", "4", "5", "6", "7", "8", "9">>

DigitChar(d) == Digits[d + 1]

DigitValue(c) == CHOOSE d \in 0..9 : Digits[d + 1] = c

Pad2(n) == <<DigitChar(n \div 10), DigitChar(n % 10)>>

Pad4(n) == Pad2(n \div 100) \o Pad2(n % 100)

Int2(s, p) == DigitValue(s[p]) * 10 + DigitValue(s[p + 1])

Int4(s, p) == Int2(s, p) * 100 + Int2(s, p + 2)

\* datetime.fromisoformat on a 'YYYY-MM-DDTHH:MM:SS' string
fromisoformat(s) ==
    [year |-> Int4(s, 1), month |-> Int2(s, 6), day |-> Int2(s, 9),
     hour |-> Int2(s, 12), minute |-> Int2(s, 15), second |-> Int2(s, 18)]

\* datetime.strftime('%Y-%m-%dT%H:%M:%S')
strftime(dt) ==
    Pad4(dt.year) \o <<"-">> \o Pad2(dt.month) \o <<"-">> \o Pad2(dt.day)
    \o <<"T">> \o Pad2(dt.hour) \o <<":">> \o Pad2(dt.minute)
    \o <<":">> \o Pad2(dt.second)

\* seconds of a datetime since the start of its month
SecondsOf(dt) == ((dt.day * 24 + dt.hour) * 60 + dt.minute) * 60 + dt.second

\* datetime + timedelta(seconds=n)
AddSeconds(dt, n) ==
    LET t == SecondsOf(dt) + n
    IN  [year |-> dt.year, month |-> dt.month, day |-> t \div 86400,
         hour |-> (t \div 3600) % 24, minute |-> (t \div 60) % 60,
         second |-> t % 60]

\* (a - b).total_seconds()
TotalSeconds(a, b) == SecondsOf(a) - SecondsOf(b)

\* a <= b on datetimes
DateTimeLeq(a, b) == SecondsOf(a) <= SecondsOf(b)

\* s[:n]
Slice(s, n) == SubSeq(s, 1, IF Len(s) < n THEN Len(s) ELSE n)

\* The timestamp string of the model's day at hour h, minute m, second s.
Stamp(h, m, s) ==
    strftime([year |-> 2023, month |-> 10, day |-> 28,
              hour |-> h, minute |-> m, second |-> s])

\* The characters of timestamps in code point order, for Python's str comparison.
CharOrder == <<"-", ".", "0", "1", "2", "3", "4", "5", "6", "7", "8", "9", ":", "T">>

CharRank(c) == CHOOSE r \in 1..Len(CharOrder) : CharOrder[r] = c

\* a < b on strings
RECURSIVE StrLess(_, _)
StrLess(a, b) ==
    IF b = <<>> THEN FALSE
    ELSE IF a = <<>> THEN TRUE
    ELSE IF Head(a) = Head(b) THEN StrLess(Tail(a), Tail(b))
    ELSE CharRank(Head(a)) < CharRank(Head(b))

SeqsUpTo(S, n) == UNION {[1..k -> S] : k \in 0..n}

RECURSIVE Concat(_)
Concat(ss) == IF ss = <<>> THEN <<>> ELSE Head(ss) \o Concat(Tail(ss))

(***************************************************************************)
(* merge_data.                                                             *)
(***************************************************************************)
\* Mutant of DictUnion: {**b, **a}, the stored record wins a collision.
DictUnionKeepExisting(a, b) ==
    [f \in DOMAIN a \cup DOMAIN b |-> IF f \in DOMAIN a THEN a[f] ELSE b[f]]

\* {**a, **b}
DictUnion(a, b) ==
    [f \in DOMAIN a \cup DOMAIN b |-> IF f \in DOMAIN b THEN b[f] ELSE a[f]]

\* Mutant of TimeKeyOf: the key is the time cut to the minute.
TimeKeyOfMinute(data_record) == Slice(data_record["time"], 16)

\* time_key = data_record['time']
TimeKeyOf(data_record) == data_record["time"]

\* the body of merge_data's inner loop
MergeRecord(merged, data_record) ==
    LET time_key == TimeKeyOf(data_record)
    IN  IF time_key \in DOMAIN merged
        THEN [merged EXCEPT ![time_key] = DictUnion(merged[time_key], data_record)]
        ELSE merged @@ (time_key :> data_record)

\* The records of the merge specification: two timestamps, a field that two
\* sources both carry (a name collision) and a field only one source has.
MergeTimes == {Stamp(19, 0, 4), Stamp(19, 0, 5)}

MergeRecords ==
    UNION {{[time |-> t],
            [time |-> t, ctd_temp_c |-> "4.2"],
            [time |-> t, ctd_temp_c |-> "4.3"],
            [time |-> t, paro_depth_m |-> "10"]} : t \in MergeTimes}

\* The ways to cut a sequence into MaxParsers consecutive iterators.
Cuts(n) ==
    {c \in [0..MaxParsers -> 0..n] :
        /\ c[0] = 0
        /\ c[MaxParsers] = n
        /\ \A p \in 1..MaxParsers : c[p - 1] <= c[p]}

SplitAt(flat, c) == [p \in 1..MaxParsers |-> SubSeq(flat, c[p - 1] + 1, c[p])]

IdleTransformer ==
    /\ data_iter = <<>> /\ taken = <<>> /\ out = <<>> /\ out_kind = <<>>
    /\ last_item = None /\ last_item_time = None /\ item = None
    /\ next_item_time = None /\ new_item_time = None
    /\ last_full_timestamp = NoTimestamp

IdleGenerator ==
    /\ start = None /\ end = None /\ interval_seconds = 0
    /\ gen_pc = "none" /\ start_time = None /\ max_seconds = 0 /\ i = 0
    /\ timeline = <<>>

IdleWriter ==
    /\ csv_to = None /\ csv_file = NotOpened /\ warnings = <<>>
    /\ sorted_keys = <<>>

InitMerge ==
    /\ pc = "merge_data"
    /\ \E flat \in SeqsUpTo(MergeRecords, MaxRecords) :
         \E c \in Cuts(Len(flat)) : parsers = SplitAt(flat, c)
    /\ merged_data = EmptyDict
    /\ consumed = <<>>
    /\ exception = None
    /\ IdleTransformer /\ IdleGenerator /\ IdleWriter

\* One pass of `for data_record in parser` (over the first iterator that
\* still has a record; drained iterators are skipped by the outer loop).
MergeNext ==
    /\ pc = "merge_data"
    /\ \E p \in 1..Len(parsers) :
         /\ parsers[p] # <<>>
         /\ \A q \in 1..(p - 1) : parsers[q] = <<>>
         /\ merged_data' = MergeRecord(merged_data, Head(parsers[p]))
         /\ consumed' = Append(consumed, Head(parsers[p]))
         /\ parsers' = [parsers EXCEPT ![p] = Tail(parsers[p])]
    /\ UNCHANGED <<pc, transVars, extVars, last_full_timestamp, genVars,
                   csvVars, exception>>

\* `return merged_data`
MergeReturn ==
    /\ pc = "merge_data"
    /\ \A p \in 1..Len(parsers) : parsers[p] = <<>>
    /\ pc' = "merged"
    /\ UNCHANGED <<mergeVars, transVars, extVars, last_full_timestamp, genVars,
                   csvVars, exception>>

NextMerge == MergeNext \/ MergeReturn

SpecMerge == InitMerge /\ [][NextMerge]_vars


(***************************************************************************)
(* Claims about merge_data (under SpecMerge).                              *)
(***************************************************************************)
ConsumedAt(k) == {n \in 1..Len(consumed) : consumed[n]["time"] = k}

SetMax(S) == CHOOSE n \in S : \A m \in S : m <= n

\* The table is the union, in consumption order, of the records consumed.
MergedIsUnionOfConsumed ==
    /\ DOMAIN merged_data = {consumed[n]["time"] : n \in 1..Len(consumed)}
    /\ \A k \in DOMAIN merged_data :
         /\ DOMAIN merged_data[k] = UNION {DOMAIN consumed[n] : n \in ConsumedAt(k)}
         /\ \A f \in DOMAIN merged_data[k] :
              merged_data[k][f] =
                  consumed[SetMax({n \in ConsumedAt(k) : f \in DOMAIN consumed[n]})][f]

\* Records are consumed iterator by iterator, record by record.
ConsumedInOrder ==
    consumed' \o Concat(parsers') = consumed \o Concat(parsers)

\* C1: for every timestamp key k the merged table's record at k is the
\* left-to-right shallow union of all consumed records whose time is k, in
\* consumption order (iterator by iterator, record by record): its field set
\* is the union of their field sets, the later-consumed record wins a field
\* name collision, and a key with no consumed record is absent.
C1_MergeIsUnion == [](MergedIsUnionOfConsumed) /\ [][ConsumedInOrder]_vars

\* C1 witness: merge_data has returned a table in which one key was built from
\* three records, two of which collide on a field with different values.
C1_Witness ==
    /\ pc = "merged"
    /\ \E k \in DOMAIN merged_data :
         /\ Cardinality(ConsumedAt(k)) = 3
         /\ DOMAIN merged_data[k] = {"time", "ctd_temp_c", "paro_depth_m"}
         /\ \E n, m \in ConsumedAt(k) :
              /\ n < m
              /\ "ctd_temp_c" \in DOMAIN consumed[n] \cap DOMAIN consumed[m]
              /\ consumed[n]["ctd_temp_c"] # consumed[m]["ctd_temp_c"]

\* C8: after every step of merge_data every record stored in the merged table
\* has a `time` field equal to the key it is stored under.
C8_TimeEqualsKey ==
    \A k \in DOMAIN merged_data :
        /\ "time" \in DOMAIN merged_data[k]
        /\ merged_data[k]["time"] = k

\* C8 witness: the table holds one record made by a union and one made by an
\* insertion.
C8_Witness ==
    /\ Cardinality(DOMAIN merged_data) = 2
    /\ \E k \in DOMAIN merged_data : Cardinality(ConsumedAt(k)) = 2

(***************************************************************************)
(* extend_sealog_messages, drained by merge_data (main, lines 111-114).    *)
(***************************************************************************)
MaxEvents == 3     \* records in the event stream
MaxOffset == 3     \* event times lie 0..MaxOffset seconds after the first

EventTimes == {strftime(AddSeconds(fromisoformat(Stamp(19, 59, 58)), d)) :
                  d \in 0..MaxOffset}

EventText(n) == <<"e", DigitChar(n)>>

EventStreams ==
    {[n \in 1..Len(ts) |-> [time |-> ts[n], sealog_event_free_text |-> EventText(n)]] :
        ts \in SeqsUpTo(EventTimes, MaxEvents)}

\* last_item.copy() with new_item['time'] set
CopyWithTime(rec, dt) == [rec EXCEPT !["time"] = strftime(dt)]

\* while new_item_time <= next_item_time
ExtendLoopGuard(new_time, next_time) == DateTimeLeq(new_time, next_time)

\* `yield rec`: the record goes to merge_data, which is draining the generator.
Yield(rec, kind) ==
    /\ out' = Append(out, rec)
    /\ out_kind' = Append(out_kind, kind)
    /\ merged_data' = MergeRecord(merged_data, rec)
    /\ consumed' = Append(consumed, rec)

InitExtend ==
    /\ pc = "ext_first"
    /\ data_iter \in EventStreams
    /\ taken = <<>> /\ out = <<>> /\ out_kind = <<>>
    /\ last_item = None /\ last_item_time = None /\ item = None
    /\ next_item_time = None /\ new_item_time = None
    /\ last_full_timestamp = NoTimestamp
    /\ parsers = <<>> /\ merged_data = EmptyDict /\ consumed = <<>>
    /\ exception = None
    /\ IdleGenerator /\ IdleWriter

\* the first loop: take one record, yield it, break
ExtFirst ==
    /\ pc = "ext_first"
    /\ data_iter # <<>>
    /\ item' = Head(data_iter)
    /\ data_iter' = Tail(data_iter)
    /\ taken' = Append(taken, Head(data_iter))
    /\ last_item_time' = fromisoformat(Head(data_iter)["time"])
    /\ last_item' = Head(data_iter)
    /\ Yield(Head(data_iter), "item")
    /\ pc' = "ext_for"
    /\ UNCHANGED <<parsers, next_item_time, new_item_time, last_full_timestamp,
                   genVars, csvVars, exception>>

\* the head of the second loop: take the next record
ExtFor ==
    /\ pc = "ext_for"
    /\ data_iter # <<>>
    /\ item' = Head(data_iter)
    /\ data_iter' = Tail(data_iter)
    /\ taken' = Append(taken, Head(data_iter))
    /\ next_item_time' = fromisoformat(Head(data_iter)["time"])
    /\ new_item_time' = last_item_time
    /\ pc' = "ext_while"
    /\ UNCHANGED <<mergeVars, out, out_kind, last_item, last_item_time,
                   last_full_timestamp, genVars, csvVars, exception>>

\* one pass of the while loop: yield a copy of last_item one second later
ExtWhile ==
    /\ pc = "ext_while"
    /\ ExtendLoopGuard(new_item_time, next_item_time)
    /\ new_item_time' = AddSeconds(new_item_time, 1)
    /\ Yield(CopyWithTime(last_item, AddSeconds(new_item_time, 1)), "copy")
    /\ UNCHANGED <<pc, parsers, data_iter, taken, last_item, last_item_time, item,
                   next_item_time, last_full_timestamp, genVars, csvVars,
                   exception>>

\* the while loop is left: the record taken becomes last_item and is yielded
ExtYieldItem ==
    /\ pc = "ext_while"
    /\ ~ExtendLoopGuard(new_item_time, next_item_time)
    /\ last_item' = item
    /\ last_item_time' = fromisoformat(item["time"])
    /\ Yield(item, "item")
    /\ pc' = "ext_for"
    /\ UNCHANGED <<parsers, data_iter, taken, item, next_item_time, new_item_time,
                   last_full_timestamp, genVars, csvVars, exception>>

\* the input is exhausted: the generator returns
ExtReturn ==
    /\ pc \in {"ext_first", "ext_for"}
    /\ data_iter = <<>>
    /\ pc' = "ext_done"
    /\ UNCHANGED <<mergeVars, transVars, extVars, last_full_timestamp, genVars,
                   csvVars, exception>>

NextExtend == ExtFirst \/ ExtFor \/ ExtWhile \/ ExtYieldItem \/ ExtReturn

SpecExtend == InitExtend /\ [][NextExtend]_vars

(***************************************************************************)
(* Claims about extend_sealog_messages (under SpecExtend).                 *)
(***************************************************************************)
TimeOf(rec) == SecondsOf(fromisoformat(rec["time"]))

NumItemsOut == Cardinality({j \in 1..Len(out) : out_kind[j] = "item"})

\* the position in `out` of the n-th input record
ItemPos(n) ==
    CHOOSE j \in 1..Len(out) :
        /\ out_kind[j] = "item"
        /\ Cardinality({m \in 1..j : out_kind[m] = "item"}) = n

\* what was yielded from the (n-1)-th input record to the n-th, both included
PairOutput(n) == SubSeq(out, ItemPos(n - 1), ItemPos(n))

\* C2: for consecutive input records A at Ta and B at Tb with Tb > Ta the
\* output is A, copies of A at Ta+1, Ta+2, ... in one-second steps, then B, with
\* exactly Tb - Ta records after A up to and including the one at Tb, none
\* later than Tb and no timestamp twice.
C2_ExtendPairExact ==
    \A n \in 2..NumItemsOut :
        LET seg == PairOutput(n)
            A == seg[1]
            B == seg[Len(seg)]
        IN  TimeOf(B) > TimeOf(A) =>
              /\ Len(seg) = TimeOf(B) - TimeOf(A) + 1
              /\ \A j \in 1..Len(seg) : TimeOf(seg[j]) = TimeOf(A) + j - 1
              /\ \A j \in 1..Len(seg) : TimeOf(seg[j]) <= TimeOf(B)
              /\ \A j, m \in 1..Len(seg) : j # m => seg[j]["time"] # seg[m]["time"]
              /\ \A j \in 2..(Len(seg) - 1) :
                   seg[j] = [A EXCEPT !["time"] = seg[j]["time"]]

\* C3: for consecutive input records A at Ta and B at Tb with Tb <= Ta nothing
\* is yielded between A and B.
C3_NoCopiesWhenNotLater ==
    \A n \in 2..NumItemsOut :
        LET seg == PairOutput(n)
        IN  TimeOf(seg[Len(seg)]) <= TimeOf(seg[1]) => Len(seg) = 2

StrictlyIncreasing(recs) ==
    \A n \in 1..(Len(recs) - 1) : TimeOf(recs[n]) < TimeOf(recs[n + 1])

\* C10: for an event stream with strictly increasing times T1 < ... < Tn,
\* extended and merged, every second t in T1..Tn carries the text of the
\* latest event at or before t, and no key later than Tn carries event text.
C10_EventDurability ==
    (pc = "ext_done" /\ taken # <<>> /\ StrictlyIncreasing(taken)) =>
        LET T1 == TimeOf(taken[1])
            Tn == TimeOf(taken[Len(taken)])
        IN  /\ \A t \in T1..Tn :
                 \E k \in DOMAIN merged_data :
                     /\ TimeOf(merged_data[k]) = t
                     /\ merged_data[k]["sealog_event_free_text"] =
                            taken[SetMax({n \in 1..Len(taken) : TimeOf(taken[n]) <= t})]
                                ["sealog_event_free_text"]
            /\ \A k \in DOMAIN merged_data :
                 TimeOf(merged_data[k]) > Tn =>
                     "sealog_event_free_text" \notin DOMAIN merged_data[k]


(***************************************************************************)
(* truncate_time_to_seconds.                                               *)
(***************************************************************************)
MaxLines == 3      \* records in the input of truncate_time_to_seconds

\* Mutant of Truncate: record['time'][:20]
TruncateTo20(time) == Slice(time, 20)

\* record['time'][:19]
Truncate(time) == Slice(time, 19)

\* Input times: two seconds, each whole and with two sub-second fractions,
\* and a time shorter than 19 characters.
LineTimes ==
    UNION {{Stamp(19, 0, s), Stamp(19, 0, s) \o <<".", "2", "5">>,
            Stamp(19, 0, s) \o <<".", "5">>} : s \in {4, 5}}
    \cup {Slice(Stamp(19, 0, 4), 16)}

\* the n-th line carries its own number, to tell the records apart
LineStreams ==
    {[n \in 1..Len(ts) |-> [time |-> ts[n], dvl_lat |-> <<DigitChar(n)>>]] :
        ts \in SeqsUpTo(LineTimes, MaxLines)}

InitTruncate ==
    /\ pc = "truncate"
    /\ data_iter \in LineStreams
    /\ taken = <<>> /\ out = <<>> /\ out_kind = <<>>
    /\ last_full_timestamp = NoTimestamp
    /\ last_item = None /\ last_item_time = None /\ item = None
    /\ next_item_time = None /\ new_item_time = None
    /\ parsers = <<>> /\ merged_data = EmptyDict /\ consumed = <<>>
    /\ exception = None
    /\ IdleGenerator /\ IdleWriter

\* the truncated time equals the last one kept: continue
TruncateSkip ==
    /\ pc = "truncate"
    /\ data_iter # <<>>
    /\ Truncate(Head(data_iter)["time"]) = last_full_timestamp
    /\ data_iter' = Tail(data_iter)
    /\ taken' = Append(taken, Head(data_iter))
    /\ UNCHANGED <<pc, mergeVars, out, out_kind, extVars, last_full_timestamp,
                   genVars, csvVars, exception>>

\* otherwise: remember it, overwrite the record's time, yield the record
TruncateYield ==
    /\ pc = "truncate"
    /\ data_iter # <<>>
    /\ Truncate(Head(data_iter)["time"]) # last_full_timestamp
    /\ last_full_timestamp' = Truncate(Head(data_iter)["time"])
    /\ out' = Append(out, [Head(data_iter) EXCEPT
                               !["time"] = Truncate(Head(data_iter)["time"])])
    /\ out_kind' = Append(out_kind, "item")
    /\ data_iter' = Tail(data_iter)
    /\ taken' = Append(taken, Head(data_iter))
    /\ UNCHANGED <<pc, mergeVars, extVars, genVars, csvVars, exception>>

TruncateReturn ==
    /\ pc = "truncate"
    /\ data_iter = <<>>
    /\ pc' = "truncate_done"
    /\ UNCHANGED <<mergeVars, transVars, extVars, last_full_timestamp, genVars,
                   csvVars, exception>>

NextTruncate == TruncateSkip \/ TruncateYield \/ TruncateReturn

SpecTruncate == InitTruncate /\ [][NextTruncate]_vars

(***************************************************************************)
(* Claims about truncate_time_to_seconds (under SpecTruncate).             *)
(***************************************************************************)
First19(rec) == Slice(rec["time"], 19)

\* the input records that are not dropped: the first, and every record whose
\* truncated time differs from that of the record right before it
KeptLines == {n \in 1..Len(taken) : n = 1 \/ First19(taken[n]) # First19(taken[n - 1])}

\* the j-th kept input record
KeptLine(j) ==
    CHOOSE n \in KeptLines : Cardinality({m \in KeptLines : m <= n}) = j

SortedByTime(recs) ==
    \A n \in 1..(Len(recs) - 1) : ~StrLess(recs[n + 1]["time"], recs[n]["time"])

\* C9: each output record's time is the first 19 characters of its input time,
\* no two consecutive output records have equal time, a record is dropped
\* exactly when its truncated time equals that of the input record right before
\* it, the survivors keep their order, and of an input ordered by time only the
\* first record of each distinct second survives.
C9_TruncateDedup ==
    /\ Len(out) = Cardinality(KeptLines)
    /\ \A j \in 1..Len(out) :
         out[j] = [taken[KeptLine(j)] EXCEPT !["time"] = First19(taken[KeptLine(j)])]
    /\ \A j \in 1..(Len(out) - 1) : out[j]["time"] # out[j + 1]["time"]
    /\ SortedByTime(taken) =>
         /\ \A j, m \in 1..Len(out) : j # m => out[j]["time"] # out[m]["time"]
         /\ \A j \in 1..Len(out) :
              \A n \in 1..Len(taken) :
                  First19(taken[n]) = out[j]["time"] => KeptLine(j) <= n

\* C9 witness: an input ordered by time went through; a record of the same
\* second as its predecessor was dropped, and a record whose time had a
\* sub-second fraction survived with the fraction cut off.
C9_Witness ==
    /\ pc = "truncate_done"
    /\ SortedByTime(taken)
    /\ Len(taken) = 3
    /\ Len(out) = 2
    /\ \E j \in 1..Len(out) : Len(taken[KeptLine(j)]["time"]) > 19


(***************************************************************************)
(* generate_time_sequence.  A generator runs only while its consumer is    *)
(* waiting in next() (pc = "next"); it hands control back by yielding      *)
(* (pc = "yielded"), by returning (pc = "stopped") or by raising           *)
(* (pc = "raised").                                                        *)
(***************************************************************************)
MaxSpan == 12      \* `end` lies at most MaxSpan seconds after the rounded start

\* datetime.replace(minute=...) raises ValueError outside 0..59
ReplaceRaises(minute) == minute \notin 0..59

\* start_time.replace(second=0, minute=start_time.minute+1)
StartOnTheMinute(dt) == [dt EXCEPT !.second = 0, !.minute = dt.minute + 1]

\* Mutant of InRange: the stop value itself is produced.
InRangeInclusive(n, stop) == n <= stop

\* n is a member of range(0, stop, step), for n a multiple of step
InRange(n, stop) == n < stop

\* int(max_seconds): the difference of two whole-second datetimes is whole
IntOf(seconds) == seconds

\* the generator yields the timestamp for loop value n, or returns
GenLoop(st, ms, n) ==
    IF InRange(n, IntOf(ms))
    THEN /\ i' = n
         /\ timeline' = Append(timeline, strftime(AddSeconds(st, n)))
         /\ gen_pc' = "suspended"
         /\ pc' = "yielded"
    ELSE /\ gen_pc' = "finished"
         /\ pc' = "stopped"
         /\ UNCHANGED <<i, timeline>>

\* the first next(): the body runs from its first line to the first yield
GenStart ==
    /\ pc = "next"
    /\ gen_pc = "created"
    /\ IF ReplaceRaises(fromisoformat(start).minute + 1)
       THEN /\ exception' = "ValueError"
            /\ gen_pc' = "raised"
            /\ pc' = "raised"
            /\ UNCHANGED <<start_time, max_seconds, i, timeline>>
       ELSE LET st == StartOnTheMinute(fromisoformat(start))
                ms == TotalSeconds(fromisoformat(end), st)
            IN  /\ start_time' = st
                /\ max_seconds' = ms
                /\ GenLoop(st, ms, 0)
                /\ UNCHANGED exception
    /\ UNCHANGED <<mergeVars, transVars, extVars, last_full_timestamp, start, end,
                   interval_seconds, csvVars>>

\* a later next(): the loop goes on from the yield
GenStep ==
    /\ pc = "next"
    /\ gen_pc = "suspended"
    /\ GenLoop(start_time, max_seconds, i + interval_seconds)
    /\ UNCHANGED <<mergeVars, transVars, extVars, last_full_timestamp, start, end,
                   interval_seconds, start_time, max_seconds, csvVars, exception>>

\* Arguments: every minute of an hour, seconds at both ends of the minute and
\* inside it, and the day's last minute; `end` from before the rounded
\* start to MaxSpan seconds after it.
GenStarts ==
    {Stamp(19, m, s) : m \in 0..59, s \in {0, 4, 59}} \cup {Stamp(23, 59, 30)}

GenEnds(st) ==
    LET dt == fromisoformat(st)
        minute_start == AddSeconds(dt, 0 - dt.second)
    IN  {strftime(AddSeconds(minute_start, 60 + d)) : d \in (0 - 2)..MaxSpan}

GenIntervals == {1, 5, 7}

InitGenerate ==
    /\ pc = "next"
    /\ start \in GenStarts
    /\ end \in GenEnds(start)
    /\ interval_seconds \in GenIntervals
    /\ gen_pc = "created"
    /\ start_time = None /\ max_seconds = 0 /\ i = 0 /\ timeline = <<>>
    /\ parsers = <<>> /\ merged_data = EmptyDict /\ consumed = <<>>
    /\ exception = None
    /\ IdleTransformer /\ IdleWriter

\* the consumer takes the timestamp and calls next() again
DrainNext ==
    /\ pc = "yielded"
    /\ pc' = "next"
    /\ UNCHANGED <<mergeVars, transVars, extVars, last_full_timestamp, genVars,
                   csvVars, exception>>

NextGenerate == GenStart \/ GenStep \/ DrainNext

SpecGenerate == InitGenerate /\ [][NextGenerate]_vars

(***************************************************************************)
(* Claims about generate_time_sequence (under SpecGenerate).               *)
(***************************************************************************)
StampSeconds(s) == SecondsOf(fromisoformat(s))

\* C4: for every earliest timestamp, also one in the last minute of an hour or
\* day, the sequence starts at the timestamp rounded forward to the next whole
\* minute, and the generator raises no error.
C4_StartRoundsUpNoError ==
    gen_pc # "created" =>
        /\ exception = None
        /\ SecondsOf(start_time) = ((StampSeconds(start) \div 60) + 1) * 60

\* C5: once the rounded start S is computed the sequence is S, S + interval,
\* S + 2*interval, ... cut off strictly before `end`: consecutive timestamps
\* differ by the interval, each lies in [S, end), none is skipped, and the
\* sequence is empty when S >= end.
C5_FixedStepsBeforeEnd ==
    gen_pc \in {"suspended", "finished"} =>
        LET S == SecondsOf(start_time)
            E == StampSeconds(end)
        IN  /\ \A n \in 1..Len(timeline) :
                 /\ Len(timeline[n]) = 19
                 /\ strftime(fromisoformat(timeline[n])) = timeline[n]
                 /\ StampSeconds(timeline[n]) = S + (n - 1) * interval_seconds
                 /\ S <= StampSeconds(timeline[n])
                 /\ StampSeconds(timeline[n]) < E
            /\ gen_pc = "finished" => S + Len(timeline) * interval_seconds >= E
            /\ (gen_pc = "finished" /\ S >= E) => timeline = <<>>

\* C5 witness: the generator has returned after a sequence of two timestamps
\* whose next step would have been `end` itself.
C5_Witness ==
    /\ gen_pc = "finished"
    /\ Len(timeline) = 2
    /\ interval_seconds = 5
    /\ fromisoformat(start).second = 59
    /\ StampSeconds(end) = StampSeconds(timeline[2]) + interval_seconds


(***************************************************************************)
(* main with sampled files only (args.dvl_dive_report and args.sealog_csv  *)
(* are None), then write_csv.  A line of a sampled file is the sequence of *)
(* its tab-separated fields.                                               *)
(***************************************************************************)
MaxFileLines == 2  \* lines in each sampled file

IntervalSeconds == 5

\* sampled_file_formats: the DEP1 and NAV.M1 formats
ParoFormat == [sensor |-> "paro", cols |-> <<"time", "depth_m">>]

UsblFormat == [sensor |-> "usbl", cols |-> <<"time", "lat", "lon">>]

\* the key of a column: 'time', or '{}_{}'.format(sensor, column)
ColumnKey(file_format, column) ==
    IF column = "time" THEN "time" ELSE file_format.sensor \o "_" \o column

\* fields[i] raises IndexError for a line with fewer fields than columns
LineRaises(fields, file_format) == Len(fields) < Len(file_format.cols)

\* parse_sampled_lines on one line
ParseSampledLine(fields, file_format) ==
    LET cols == file_format.cols
    IN  [key \in {ColumnKey(file_format, cols[c]) : c \in 1..Len(cols)} |->
             fields[CHOOSE c \in 1..Len(cols) : ColumnKey(file_format, cols[c]) = key]]

\* merge_data over records already produced
RECURSIVE MergeAll(_, _)
MergeAll(merged, records) ==
    IF records = <<>> THEN merged
    ELSE MergeAll(MergeRecord(merged, Head(records)), Tail(records))

\* min(...) / max(...) of a set of strings
StrMin(S) == CHOOSE a \in S : \A b \in S : ~StrLess(b, a)

StrMax(S) == CHOOSE a \in S : \A b \in S : ~StrLess(a, b)

\* The model's field names in lexicographic order: sorted() on field names.
FieldOrder == <<"paro_depth_m", "time", "usbl_lat", "usbl_lon">>

\* sorted(list(all_keys)), then 'time' moved to the front
SortedKeys(data) ==
    LET all_keys == UNION {DOMAIN data[k] : k \in DOMAIN data}
        in_keys(f) == f \in all_keys /\ f # "time"
    IN  <<"time">> \o SelectSeq(FieldOrder, in_keys)

\* DictWriter.writerow: the record's values under the header, '' where absent
RowOf(keys, rec) ==
    [c \in 1..Len(keys) |-> IF keys[c] \in DOMAIN rec THEN rec[keys[c]] ELSE ""]

\* Mutant of WriteRow: a missing timestamp gets a row of empty values.
WriteRowBlankOnMissing(data, keys, timestamp) ==
    IF timestamp \in DOMAIN data
    THEN [rows |-> <<RowOf(keys, data[timestamp])>>, warnings |-> <<>>]
    ELSE [rows |-> <<RowOf(keys, [time |-> timestamp])>>, warnings |-> <<timestamp>>]

\* the body of write_csv's loop: a row, or a warning on KeyError
WriteRow(data, keys, timestamp) ==
    IF timestamp \in DOMAIN data
    THEN [rows |-> <<RowOf(keys, data[timestamp])>>, warnings |-> <<>>]
    ELSE [rows |-> <<>>, warnings |-> <<timestamp>>]

\* Timestamps around the last minute of an hour.
MainTimes == {Stamp(19, 58, 56), Stamp(19, 59, 0), Stamp(19, 59, 5), Stamp(19, 59, 10)}

ParoLines == {<<t, "10.5">> : t \in MainTimes} \cup {<<Stamp(19, 58, 56)>>}

UsblLines == {<<t, "44.1", "-125.2", "10.4">> : t \in MainTimes}
                 \cup {<<Stamp(19, 58, 56), "44.1">>}

Init ==
    /\ pc = "main"
    /\ \E paro \in SeqsUpTo(ParoLines, MaxFileLines),
          usbl \in SeqsUpTo(UsblLines, MaxFileLines) :
         parsers = <<[file_format |-> ParoFormat, lines |-> paro],
                     [file_format |-> UsblFormat, lines |-> usbl]>>
    /\ csv_to \in {None, "merged.tsv"}
    /\ merged_data = EmptyDict /\ consumed = <<>>
    /\ csv_file = NotOpened /\ warnings = <<>> /\ sorted_keys = <<>>
    /\ exception = None
    /\ IdleTransformer /\ IdleGenerator

\* the lines of all files in the order merge_data pulls them, each with its format
AllLines ==
    Concat([p \in 1..Len(parsers) |->
               [n \in 1..Len(parsers[p].lines) |->
                   [file_format |-> parsers[p].file_format,
                    fields |-> parsers[p].lines[n]]]])

\* merged_data = merge_data(parsers): the parsers are drained here; a short
\* line raises IndexError out of merge_data and main
MainMerge ==
    /\ pc = "main"
    /\ LET lines == AllLines
           bad == {n \in 1..Len(lines) : LineRaises(lines[n].fields, lines[n].file_format)}
       IN  IF bad # {}
           THEN /\ exception' = "IndexError"
                /\ pc' = "aborted"
                /\ UNCHANGED <<merged_data, consumed>>
           ELSE LET records == [n \in 1..Len(lines) |->
                                   ParseSampledLine(lines[n].fields, lines[n].file_format)]
                IN  /\ merged_data' = MergeAll(EmptyDict, records)
                    /\ consumed' = records
                    /\ pc' = "merged"
                    /\ UNCHANGED exception
    /\ UNCHANGED <<parsers, transVars, extVars, last_full_timestamp, genVars,
                   csvVars>>

\* first_time, last_time, time_iter = generate_time_sequence(...): the
\* generator object is made, its body does not run; min([]) raises ValueError
MainTimeRange ==
    /\ pc = "merged"
    /\ IF DOMAIN merged_data = {}
       THEN /\ exception' = "ValueError"
            /\ pc' = "aborted"
            /\ UNCHANGED <<start, end, interval_seconds, gen_pc>>
       ELSE /\ start' = StrMin(DOMAIN merged_data)
            /\ end' = StrMax(DOMAIN merged_data)
            /\ interval_seconds' = IntervalSeconds
            /\ gen_pc' = "created"
            /\ pc' = IF csv_to = None THEN "done" ELSE "write_csv"
            /\ UNCHANGED exception
    /\ UNCHANGED <<mergeVars, transVars, extVars, last_full_timestamp, start_time,
                   max_seconds, i, timeline, csvVars>>

\* write_csv up to writer.writeheader()
WriteCsvOpen ==
    /\ pc = "write_csv"
    /\ sorted_keys' = SortedKeys(merged_data)
    /\ csv_file' = <<SortedKeys(merged_data)>>
    /\ pc' = "next"
    /\ UNCHANGED <<mergeVars, transVars, extVars, last_full_timestamp, genVars,
                   csv_to, warnings, exception>>

\* one pass of `for timestamp in time_iter`
WriteCsvRow ==
    /\ pc = "yielded"
    /\ LET res == WriteRow(merged_data, sorted_keys, timeline[Len(timeline)])
       IN  /\ csv_file' = csv_file \o res.rows
           /\ warnings' = warnings \o res.warnings
    /\ pc' = "next"
    /\ UNCHANGED <<mergeVars, transVars, extVars, last_full_timestamp, genVars,
                   csv_to, sorted_keys, exception>>

\* the generator returned: the loop and the with block end, main returns
WriteCsvEnd ==
    /\ pc = "stopped"
    /\ pc' = "done"
    /\ UNCHANGED <<mergeVars, transVars, extVars, last_full_timestamp, genVars,
                   csvVars, exception>>

\* the generator raised: the exception leaves the with block (which closes the
\* file as written so far), write_csv and main
WriteCsvRaise ==
    /\ pc = "raised"
    /\ pc' = "aborted"
    /\ UNCHANGED <<mergeVars, transVars, extVars, last_full_timestamp, genVars,
                   csvVars, exception>>

Next ==
    \/ MainMerge
    \/ MainTimeRange
    \/ WriteCsvOpen
    \/ GenStart
    \/ GenStep
    \/ WriteCsvRow
    \/ WriteCsvEnd
    \/ WriteCsvRaise

Spec == Init /\ [][Next]_vars

(***************************************************************************)
(* Claims about main and write_csv (under Spec).                           *)
(***************************************************************************)
\* the timeline timestamps whose pass of the loop is over
Processed ==
    IF pc = "yielded" THEN SubSeq(timeline, 1, Len(timeline) - 1) ELSE timeline

HasData(t) == t \in DOMAIN merged_data

HasNoData(t) == t \notin DOMAIN merged_data

\* C6: in every run either the full table (header and a row for every
\* timeline timestamp that has data) is written or nothing is; no run ends in
\* an exception after the output file was opened or its header written.
C6_AllOrNothing ==
    /\ exception # None => csv_file = NotOpened
    /\ (pc = "done" /\ csv_to # None) =>
          /\ gen_pc = "finished"
          /\ Len(csv_file) = 1 + Len(SelectSeq(timeline, HasData))

\* C7: after the header each timeline timestamp, in order, gives exactly one
\* outcome: a data row if it is a key of the merged table, else one warning and
\* no row.  Rows are in timeline order, rows plus warnings equal the timeline
\* length, a missing timestamp does not stop the run, and no row is written for
\* a timestamp outside the timeline.
C7_RowOrWarning ==
    csv_file # NotOpened =>
        LET rows == Tail(csv_file)
            with_data == SelectSeq(Processed, HasData)
            without == SelectSeq(Processed, HasNoData)
        IN  /\ csv_file[1] = sorted_keys
            /\ Len(rows) + Len(warnings) = Len(Processed)
            /\ Len(rows) = Len(with_data)
            /\ \A r \in 1..Len(rows) :
                 /\ rows[r][1] = with_data[r]
                 /\ \A c \in 1..Len(sorted_keys) :
                      rows[r][c] = IF sorted_keys[c] \in DOMAIN merged_data[with_data[r]]
                                   THEN merged_data[with_data[r]][sorted_keys[c]]
                                   ELSE ""
            /\ warnings = without
            /\ (warnings # <<>> /\ pc \in {"done", "aborted"}) => gen_pc = "finished"

\* C7 witness: a run ended with a data row written and, later in the timeline,
\* a warning logged.
C7_Witness ==
    /\ pc = "done"
    /\ csv_file # NotOpened
    /\ Len(csv_file) = 2
    /\ Len(warnings) = 1
    /\ HasData(timeline[1])
    /\ HasNoData(timeline[2])

====
